---- MODULE Spec2Model ----
(***************************************************************************)
(* SpeechMe frontend: the AudioRecorder component (recording, analysis,    *)
(* practice scripts) and the guarded Home / Dashboard pages.               *)
(*                                                                         *)
(* React state is modelled by one variable per useState cell, refs by one  *)
(* variable per useRef cell.  A click handler reads the state of the       *)
(* committed render, which is the current state; the continuation of an    *)
(* await and a timer callback read the values their closure captured, so   *)
(* every pending continuation carries its captured values.                 *)
(***************************************************************************)
EXTENDS Naturals, Integers, Sequences, FiniteSets, TLC

VARIABLES
  isRecording,      \* useState(false)
  audioURL,         \* useState(''): <<>> is '', <<blob>> an object URL of blob
  isAnalyzing,      \* useState(false)
  feedback,         \* useState(''): [kind, blob]
  currentScript,    \* useState(null): "none" or the difficulty the script was served for
  difficulty,       \* useState('beginner')
  loadingScript,    \* useState(false)
  mediaRecorderRef, \* useRef(null): 0 is null, else a recorder id
  audioChunksRef,   \* useRef([]): sequence of chunks, a chunk is the id of its recorder
  user,             \* useAuth().user: "none" is null
  session,          \* the auth provider's current session: "none" or its access token
  scripted,         \* TRUE: the script-driven recorder, FALSE: the plain recorder
  home,             \* the Home page: "plain" renders the recorder always, "guarded" under a user
  orphans,          \* continuations pending of recorders and login forms since unmounted
  micPending,       \* getUserMedia promises not yet settled
  recorders,        \* MediaRecorder objects: state of each recorder id
  tracks,           \* recorder ids whose capture stream has live tracks
  analyses,         \* analyzeAudio invocations suspended at an await
  timers,           \* pending setTimeout callbacks of the difficulty selector
  fetches,          \* practice-script requests in flight, per requested difficulty
  authLoading,      \* useAuth().loading: initial session restoration under way
  route,            \* the page mounted: "/", "/dashboard" or "/login"
  navPending,       \* target of a router.push not yet completed, "" if none
  login,            \* LoginPage: useState loading and error, and its signIn call pending
  sessions,         \* DashboardPage useState([]): [id, score] records, newest first
  stats,            \* DashboardPage useState(null): "null" or the stats served
  loading,          \* DashboardPage useState(true)
  dashFetches,      \* fetchDashboardData invocations suspended at an await
  selectedSession,  \* DashboardPage useState(null): <<>> is null, else <<session>>
  view,             \* what the dashboard content renders: chart bars, cards, detail
  lastOp,           \* history: the step taken last
  lastArg,          \* history: its argument or outcome
  alert,            \* history: the alert() raised by the last step, "" if none
  lastRequest,      \* history: difficulty of the script request the last step issued
  staleStops        \* history: recorders whose stop task was pending at a clearRecording

vars == <<isRecording, audioURL, isAnalyzing, feedback, currentScript, difficulty,
          loadingScript, mediaRecorderRef, audioChunksRef, user, session, scripted,
          home, orphans, login,
          micPending, recorders, tracks, analyses, timers, fetches,
          authLoading, route, navPending, sessions, stats, loading, dashFetches,
          selectedSession, view, lastOp, lastArg, alert, lastRequest, staleStops>>

recState == <<isRecording, audioURL, isAnalyzing, feedback, mediaRecorderRef,
              audioChunksRef>>
mediaVars == <<micPending, recorders, tracks>>
scriptVars == <<currentScript, difficulty, loadingScript, timers, fetches>>
authVars == <<user, session, authLoading>>
dashVars == <<sessions, stats, loading, dashFetches>>
chartVars == <<selectedSession, view>>
navVars == <<route, navPending, login>>
pageVars == <<navVars, dashVars, chartVars>>
hostVars == <<scripted, home, orphans>>
recorderVars == <<recState, mediaVars, analyses, scriptVars, hostVars>>

----------------------------------------------------------------------------
\* Bounds of the model
MaxRecorders == 2      \* MediaRecorder objects created in one run
MaxPending == 2        \* getUserMedia promises pending at once
MaxAnalyses == 2       \* analyzeAudio invocations suspended at once
MaxFetches == 2        \* practice-script requests in flight at once
MaxTimers == 1         \* difficulty-selector timers pending at once

MaxDashFetches == 2    \* fetchDashboardData invocations suspended at once
MaxServedScore == 120  \* largest score a served session carries (the column is a FLOAT)

RecIds == 1..MaxRecorders
AnalysisIds == 1..MaxAnalyses
DashIds == 1..MaxDashFetches

Difficulties == {"beginner", "intermediate", "advanced"}
TimerKinds == Difficulties \X Difficulties   \* <<level clicked, difficulty captured>>

NoURL == <<>>
ObjectURL(blob) == <<blob>>
BlobOf(url) == url[1]

NoFeedback == [kind |-> "none", blob |-> <<>>]
ErrorFeedback == [kind |-> "error", blob |-> <<>>]
FormattedFeedback(blob) == [kind |-> "result", blob |-> blob]
ServerErrorFeedback == [kind |-> "server", blob |-> <<>>]

IdleAnalysis == [pc |-> "idle", blob |-> <<>>, by |-> "none", token |-> "none"]

IdleFetch == [pc |-> "idle", token |-> "none", orphan |-> FALSE]

BagSize(b) == LET RECURSIVE Sum(_)
                  Sum(S) == IF S = {} THEN 0
                            ELSE LET x == CHOOSE y \in S : TRUE
                                 IN b[x] + Sum(S \ {x})
              IN Sum(DOMAIN b)

\* Practice-script requests in flight, of the mounted recorder and of unmounted ones
InFlightScripts == BagSize(fetches) + orphans.fetches

\* Recorders between their stop() call and their stop task
Stopping == {r \in RecIds : recorders[r] = "stopping"}

\* The stop tasks pending at a clear, until they have run
StaleAfter(op) ==
  IF op = "clearRecording" THEN staleStops \cup Stopping
  ELSE IF op = "onstop" THEN {r \in staleStops : recorders'[r] = "stopping"}
  ELSE staleStops

Hist(op, arg, al) ==
  /\ lastOp' = op
  /\ lastArg' = arg
  /\ alert' = al
  /\ lastRequest' = ""
  /\ staleStops' = StaleAfter(op)

HistRequest(op, arg, d) ==
  /\ lastOp' = op
  /\ lastArg' = arg
  /\ alert' = ""
  /\ lastRequest' = d
  /\ staleStops' = StaleAfter(op)

----------------------------------------------------------------------------
\* The recorder on its page

\* Mutant of HomeRender: the !user guard is missing
HomeRenderNoGuard(l, u) == IF l THEN "spinner" ELSE "content"

\* Home's render: spinner while loading, null without a user, else the recorder
HomeRender(l, u) ==
  IF l THEN "spinner" ELSE IF u = "none" THEN "null" ELSE "content"

\* What the Home page in use renders: the plain Home has no guard at all
HomeShows(l, u) == IF home = "plain" THEN "content" ELSE HomeRender(l, u)

\* <AudioRecorder /> is part of Home's content
RecorderShown(r, l, u) == r = "/" /\ HomeShows(l, u) = "content"

RecorderMounted == RecorderShown(route, authLoading, user)

NoOrphans == [mic |-> 0, timers |-> [t \in TimerKinds |-> 0], fetches |-> 0,
              stops |-> {}, analyses |-> {}, signIns |-> 0]

\* LoginPage as mounted
IdleLogin == [loading |-> FALSE, error |-> FALSE, pending |-> FALSE]

\* loadNewScript: the request carries the difficulty its closure captured
loadNewScript(d) ==
  /\ loadingScript' = TRUE
  /\ fetches' = [fetches EXCEPT ![d] = @ + 1]

\* A recorder's component state before any click; effect: the mount effect of the
\* scripted recorder has called loadNewScript
RecorderState(effect) ==
  /\ isRecording = FALSE
  /\ audioURL = NoURL
  /\ isAnalyzing = FALSE
  /\ feedback = NoFeedback
  /\ currentScript = "none"
  /\ difficulty = "beginner"
  /\ mediaRecorderRef = 0
  /\ audioChunksRef = <<>>
  /\ micPending = 0
  /\ timers = [t \in TimerKinds |-> 0]
  /\ loadingScript = effect
  /\ fetches = [d \in Difficulties |-> IF effect /\ d = "beginner" THEN 1 ELSE 0]
  /\ lastRequest = (IF effect THEN "beginner" ELSE "")

\* The browser before any recording, and no step taken
InitMedia ==
  /\ scripted \in BOOLEAN
  /\ orphans = NoOrphans
  /\ recorders = [r \in RecIds |-> "unused"]
  /\ tracks = {}
  /\ analyses = [a \in AnalysisIds |-> IdleAnalysis]
  /\ lastOp = "mount"
  /\ lastArg = ""
  /\ staleStops = {}
  /\ alert = ""

\* The recorder as mounted, before any click
InitRecorder ==
  /\ InitMedia
  /\ RecorderState(scripted)

\* The dashboard's session views: ScoreChart, SessionCard, SessionDetailModal

SessionLimit == 20     \* GET /sessions?limit=20
ChartBars == 10        \* slice(-10)
maxScore == 100
chartHeight == 200
GreenFrom == 80        \* score >= 80
YellowFrom == 60       \* score >= 60

Session(i, sc) == [id |-> i, score |-> sc]

\* [...s].reverse()
Reverse(s) == [i \in 1..Len(s) |-> s[Len(s) + 1 - i]]

\* s.slice(-k): the last k elements, all of them when there are fewer
SliceLast(s, k) == IF Len(s) <= k THEN s ELSE SubSeq(s, Len(s) - k + 1, Len(s))

\* reverse().slice(0, 10): the ten oldest
chartSessionsOldest(ss) ==
  IF Len(ss) <= ChartBars THEN Reverse(ss) ELSE SubSeq(Reverse(ss), 1, ChartBars)

\* const chartSessions = [...sessions].reverse().slice(-10)
chartSessions(ss) == SliceLast(Reverse(ss), ChartBars)

\* const height = (session.score / maxScore) * chartHeight, in px; nothing clamps it
barHeight(score) == (score * chartHeight) \div maxScore

barColorStrict(score) ==
  IF score > GreenFrom THEN "green" ELSE IF score > YellowFrom THEN "yellow" ELSE "red"

\* ScoreChart: bg-green-500, bg-yellow-500 or bg-red-500
barColor(score) ==
  IF score >= GreenFrom THEN "green" ELSE IF score >= YellowFrom THEN "yellow" ELSE "red"

\* SessionCard: text-green-600, text-yellow-600 or text-red-600
cardColor(score) ==
  IF score >= GreenFrom THEN "green" ELSE IF score >= YellowFrom THEN "yellow" ELSE "red"

\* SessionDetailModal: text-green-600, text-yellow-600 or text-red-600
detailColor(score) ==
  IF score >= GreenFrom THEN "green" ELSE IF score >= YellowFrom THEN "yellow" ELSE "red"

\* ScoreChart: one bar per chart session, labelled index + 1
ScoreChart(ss) ==
  LET shown == chartSessions(ss)
  IN [i \in 1..Len(shown) |->
        [id |-> shown[i].id,
         height |-> barHeight(shown[i].score),
         color |-> barColor(shown[i].score),
         label |-> i]]

\* The session views of the dashboard content: the chart under sessions.length > 0,
\* one card per session, the detail modal under selectedSession
DashboardView(ss, sel) ==
  [chart |-> IF Len(ss) > 0 THEN ScoreChart(ss) ELSE <<>>,
   cards |-> [i \in 1..Len(ss) |-> [id |-> ss[i].id, color |-> cardColor(ss[i].score)]],
   detail |-> IF sel = <<>> THEN "none" ELSE detailColor(sel[1].score)]

\* DashboardPage as mounted
InitDashboard ==
  /\ sessions = <<>>
  /\ stats = "null"
  /\ loading = TRUE
  /\ dashFetches = [f \in DashIds |-> IdleFetch]
  /\ selectedSession = <<>>
  /\ view = DashboardView(<<>>, <<>>)

\* The recorder on the plain Home page, session restoration over
Init ==
  /\ InitRecorder
  /\ InitDashboard
  /\ user \in {"none", "u1"}
  /\ session = (IF user = "none" THEN "none" ELSE "t1")
  /\ authLoading = FALSE
  /\ home = "plain"
  /\ route = "/"
  /\ navPending = ""
  /\ login = IdleLogin

----------------------------------------------------------------------------
\* Recording

\* Start button, rendered while !isRecording: startRecording up to its await
StartClick ==
  /\ RecorderMounted
  /\ ~isRecording
  /\ micPending + orphans.mic < MaxPending
  /\ micPending' = micPending + 1
  /\ Hist("startRecording", "", "")
  /\ UNCHANGED <<recState, recorders, tracks, scriptVars, hostVars, analyses,
                 authVars, pageVars>>

NextRecorder == CHOOSE r \in RecIds : recorders[r] = "unused" /\
                   \A q \in RecIds : recorders[q] = "unused" => r <= q

\* getUserMedia resolves: the rest of startRecording's try block
MicGranted ==
  /\ micPending > 0
  /\ \E r \in RecIds : recorders[r] = "unused"
  /\ LET r == NextRecorder IN
       /\ micPending' = micPending - 1
       /\ tracks' = tracks \cup {r}
       /\ mediaRecorderRef' = r
       /\ audioChunksRef' = <<>>
       /\ recorders' = [recorders EXCEPT ![r] = "recording"]
       /\ isRecording' = TRUE
       /\ feedback' = NoFeedback
       /\ Hist("micGranted", "", "")
  /\ UNCHANGED <<audioURL, isAnalyzing, scriptVars, hostVars, analyses,
                 authVars, pageVars>>

\* getUserMedia rejects: startRecording's catch block
MicDenied ==
  /\ micPending > 0
  /\ micPending' = micPending - 1
  /\ Hist("micDenied", "", "mic")
  /\ UNCHANGED <<recState, recorders, tracks, scriptVars, hostVars, analyses,
                 authVars, pageVars>>

\* MediaRecorder.stop(): an inactive recorder ignores it
RecorderStop(r) ==
  IF recorders[r] = "recording" THEN [recorders EXCEPT ![r] = "stopping"]
  ELSE recorders

stopGuard == mediaRecorderRef # 0 /\ isRecording

\* stopRecording; its own guard implies the Stop button's render condition
stopRecording ==
  /\ RecorderMounted
  /\ IF stopGuard
       THEN /\ recorders' = RecorderStop(mediaRecorderRef)
            /\ isRecording' = FALSE
       ELSE UNCHANGED <<recorders, isRecording>>
  /\ Hist("stopRecording", IF stopGuard THEN "stopped" ELSE "ignored", "")
  /\ UNCHANGED <<audioURL, isAnalyzing, feedback, mediaRecorderRef, audioChunksRef,
                 micPending, tracks, scriptVars, hostVars, analyses,
                 authVars, pageVars>>

\* ondataavailable: a chunk of size 0 is not buffered
ondataavailable(chunks, r, size) == IF size > 0 THEN Append(chunks, r) ELSE chunks

\* Mutant of onstopURL: no URL is made when nothing was buffered
onstopURLNonEmpty(chunks) == IF chunks = <<>> THEN NoURL ELSE ObjectURL(chunks)

\* onstop: the URL of a blob of the shared buffer
onstopURL(chunks) == ObjectURL(chunks)

\* onstop: stream.getTracks().forEach(track => track.stop())
onstopTracks(r) == tracks \ {r}

\* The task MediaRecorder.stop() queues: dataavailable, then stop
RecorderStopTask(r, size) ==
  /\ recorders[r] = "stopping"
  /\ r \notin orphans.stops
  /\ LET chunks == ondataavailable(audioChunksRef, r, size) IN
       /\ audioChunksRef' = chunks
       /\ audioURL' = onstopURL(chunks)
  /\ tracks' = onstopTracks(r)
  /\ recorders' = [recorders EXCEPT ![r] = "inactive"]
  /\ Hist("onstop", IF size > 0 THEN "data" ELSE "empty", "")
  /\ UNCHANGED <<isRecording, isAnalyzing, feedback, mediaRecorderRef, micPending,
                 scriptVars, hostVars, analyses,
                 authVars, pageVars>>

----------------------------------------------------------------------------
\* Analysis

FirstIdle == CHOOSE a \in AnalysisIds : analyses[a].pc = "idle" /\
                \A b \in AnalysisIds : analyses[b].pc = "idle" => a <= b

\* Mutant of AnalyzeEnabled: the button is not disabled while analyzing
AnalyzeEnabledAlways == audioURL # NoURL /\ ~isRecording

\* The Analyze button: rendered while audioURL && !isRecording, disabled={isAnalyzing}
AnalyzeEnabled == audioURL # NoURL /\ ~isRecording /\ ~isAnalyzing

\* analyzeAudio's second early return
analyzeUserGuard(u) == u # "none"

\* analyzeAudio up to its awaits of the object URL and of getSession
analyzeAudio ==
  /\ RecorderMounted
  /\ AnalyzeEnabled
  /\ \E a \in AnalysisIds : analyses[a].pc = "idle"
  /\ IF audioURL = NoURL
       THEN /\ Hist("analyzeAudio", "noAudio", "record")
            /\ UNCHANGED <<isAnalyzing, feedback, analyses>>
       ELSE IF ~analyzeUserGuard(user)
       THEN /\ Hist("analyzeAudio", "noUser", "login")
            /\ UNCHANGED <<isAnalyzing, feedback, analyses>>
       ELSE /\ isAnalyzing' = TRUE
            /\ feedback' = NoFeedback
            /\ analyses' = [analyses EXCEPT ![FirstIdle] =
                              [pc |-> "getSession", blob |-> BlobOf(audioURL),
                               by |-> user, token |-> "none"]]
            /\ Hist("analyzeAudio", "started", "")
  /\ UNCHANGED <<isRecording, audioURL, mediaRecorderRef, audioChunksRef, mediaVars,
                 scriptVars, hostVars, authVars, pageVars>>

\* Mutant of analyzeFinally: the flag is not reset
analyzeFinallyMissing == isAnalyzing

\* finally { setIsAnalyzing(false) }
analyzeFinally == FALSE

\* Mutant of analyzeSessionGuard: the session check is missing
analyzeSessionGuardOff(s) == TRUE

\* if (!session) { alert; return }
analyzeSessionGuard(s) == s # "none"

\* getSession resolves: the early return through finally, or the POST to /analyze-speech
AnalyzeSession(a) ==
  /\ analyses[a].pc = "getSession"
  /\ a \notin orphans.analyses
  /\ IF ~analyzeSessionGuard(session)
       THEN /\ analyses' = [analyses EXCEPT ![a] = IdleAnalysis]
            /\ isAnalyzing' = analyzeFinally
            /\ Hist("getSession", "noSession", "expired")
       ELSE /\ analyses' = [analyses EXCEPT ![a].pc = "api", ![a].token = session]
            /\ UNCHANGED isAnalyzing
            /\ Hist("getSession", "request", "")
  /\ UNCHANGED <<isRecording, audioURL, feedback, mediaRecorderRef, audioChunksRef,
                 mediaVars, scriptVars, hostVars, authVars, pageVars>>

ApiOutcomes == {"ok", "malformed", "notOk", "networkError"}

\* Mutant of analyzeFeedback: the server's error text is shown
analyzeFeedbackServer(outcome, blob) ==
  IF outcome = "ok" THEN FormattedFeedback(blob)
  ELSE IF outcome = "notOk" THEN ServerErrorFeedback
  ELSE ErrorFeedback

\* What setFeedback receives: the formatted result, or the catch block's fixed message
analyzeFeedback(outcome, blob) ==
  IF outcome = "ok" THEN FormattedFeedback(blob) ELSE ErrorFeedback

\* The POST settles: try / catch / finally of analyzeAudio
AnalyzeResponse(a, outcome) ==
  /\ analyses[a].pc = "api"
  /\ a \notin orphans.analyses
  /\ feedback' = analyzeFeedback(outcome, analyses[a].blob)
  /\ isAnalyzing' = analyzeFinally
  /\ analyses' = [analyses EXCEPT ![a] = IdleAnalysis]
  /\ Hist("apiResponse", outcome, "")
  /\ UNCHANGED <<isRecording, audioURL, mediaRecorderRef, audioChunksRef, mediaVars,
                 scriptVars, hostVars, authVars, pageVars>>

----------------------------------------------------------------------------
\* Clear and the practice scripts

\* "Try New Script" / "Record Again": rendered while audioURL && !isRecording
ClearEnabled == audioURL # NoURL /\ ~isRecording

\* Mutant of clearFeedback: clear forgets setFeedback('')
clearFeedbackKept == feedback

clearFeedback == NoFeedback

\* Mutant of clearClosure: a loadNewScript memoised at mount
clearClosureMount == "beginner"

\* clearRecording calls the loadNewScript of the render that was clicked
clearClosure == difficulty

clearRecording ==
  /\ RecorderMounted
  /\ ClearEnabled
  /\ scripted => InFlightScripts < MaxFetches
  /\ audioURL' = NoURL
  /\ feedback' = clearFeedback
  /\ audioChunksRef' = <<>>
  /\ IF scripted
       THEN /\ loadNewScript(clearClosure)
            /\ HistRequest("clearRecording", "", clearClosure)
       ELSE /\ UNCHANGED <<loadingScript, fetches>>
            /\ Hist("clearRecording", "", "")
  /\ UNCHANGED <<isRecording, isAnalyzing, mediaRecorderRef, mediaVars, analyses,
                 currentScript, difficulty, timers, hostVars, authVars, pageVars>>

\* "New Script": rendered while currentScript, disabled={loadingScript}
NewScriptClick ==
  /\ scripted
  /\ RecorderMounted
  /\ currentScript # "none"
  /\ ~loadingScript
  /\ InFlightScripts < MaxFetches
  /\ loadNewScript(difficulty)
  /\ HistRequest("newScript", "", difficulty)
  /\ UNCHANGED <<recState, mediaVars, analyses, currentScript, difficulty, timers,
                 hostVars, authVars, pageVars>>

\* The difficulty the callback passed to setTimeout will request: loadNewScript is
\* the function of the render in which the button was clicked
timerClosure(level) == difficulty

\* A difficulty button's onClick
DifficultyClick(level) ==
  /\ scripted
  /\ RecorderMounted
  /\ BagSize(timers) + BagSize(orphans.timers) < MaxTimers
  /\ difficulty' = level
  /\ currentScript' = "none"
  /\ timers' = [timers EXCEPT ![<<level, timerClosure(level)>>] = @ + 1]
  /\ Hist("setDifficulty", level, "")
  /\ UNCHANGED <<recState, mediaVars, analyses, loadingScript, fetches, hostVars,
                 authVars, pageVars>>

\* The 100 ms timer fires
TimerFire(t) ==
  /\ timers[t] > 0
  /\ InFlightScripts < MaxFetches
  /\ timers' = [timers EXCEPT ![t] = @ - 1]
  /\ loadNewScript(t[2])
  /\ HistRequest("timer", t[1], t[2])
  /\ UNCHANGED <<recState, mediaVars, analyses, currentScript, difficulty, hostVars,
                 authVars, pageVars>>

FetchOutcomes == {"ok", "notOk", "networkError"}

\* Mutant of scriptAfter: a failed request clears the script
scriptAfterCleared(d, outcome) == IF outcome = "ok" THEN d ELSE "none"

\* setCurrentScript(data.script) only under response.ok
scriptAfter(d, outcome) == IF outcome = "ok" THEN d ELSE currentScript

\* A practice-script request settles: try / catch / finally of loadNewScript
ScriptResponse(d, outcome) ==
  /\ fetches[d] > 0
  /\ fetches' = [fetches EXCEPT ![d] = @ - 1]
  /\ currentScript' = scriptAfter(d, outcome)
  /\ loadingScript' = FALSE
  /\ Hist("scriptResponse", outcome, "")
  /\ UNCHANGED <<recState, mediaVars, analyses, difficulty, timers, hostVars,
                 authVars, pageVars>>

----------------------------------------------------------------------------
\* Continuations of a recorder that has been unmounted: its state setters reach no
\* component and its refs are its own; what it does outside the component happens

\* getUserMedia resolves: a MediaRecorder is created and started on the new stream
MicGrantedUnmounted ==
  /\ orphans.mic > 0
  /\ \E r \in RecIds : recorders[r] = "unused"
  /\ LET r == NextRecorder IN
       /\ tracks' = tracks \cup {r}
       /\ recorders' = [recorders EXCEPT ![r] = "recording"]
  /\ orphans' = [orphans EXCEPT !.mic = @ - 1]
  /\ Hist("micGrantedUnmounted", "", "")
  /\ UNCHANGED <<recState, micPending, scriptVars, scripted, home, analyses,
                 authVars, pageVars>>

\* getUserMedia rejects: the catch block's alert
MicDeniedUnmounted ==
  /\ orphans.mic > 0
  /\ orphans' = [orphans EXCEPT !.mic = @ - 1]
  /\ Hist("micDeniedUnmounted", "", "mic")
  /\ UNCHANGED <<recState, mediaVars, scriptVars, scripted, home, analyses,
                 authVars, pageVars>>

\* The stop task of a recorder stopped before the unmount: onstop stops the tracks
RecorderStopTaskUnmounted(r) ==
  /\ recorders[r] = "stopping"
  /\ r \in orphans.stops
  /\ tracks' = onstopTracks(r)
  /\ recorders' = [recorders EXCEPT ![r] = "inactive"]
  /\ orphans' = [orphans EXCEPT !.stops = @ \ {r}]
  /\ Hist("onstopUnmounted", "", "")
  /\ UNCHANGED <<recState, micPending, scriptVars, scripted, home, analyses,
                 authVars, pageVars>>

\* getSession resolves: the alert of the early return, or the POST
AnalyzeSessionUnmounted(a) ==
  /\ analyses[a].pc = "getSession"
  /\ a \in orphans.analyses
  /\ IF ~analyzeSessionGuard(session)
       THEN /\ analyses' = [analyses EXCEPT ![a] = IdleAnalysis]
            /\ orphans' = [orphans EXCEPT !.analyses = @ \ {a}]
            /\ Hist("getSessionUnmounted", "noSession", "expired")
       ELSE /\ analyses' = [analyses EXCEPT ![a].pc = "api", ![a].token = session]
            /\ UNCHANGED orphans
            /\ Hist("getSessionUnmounted", "request", "")
  /\ UNCHANGED <<recState, mediaVars, scriptVars, scripted, home, authVars, pageVars>>

\* The POST settles
AnalyzeResponseUnmounted(a, outcome) ==
  /\ analyses[a].pc = "api"
  /\ a \in orphans.analyses
  /\ analyses' = [analyses EXCEPT ![a] = IdleAnalysis]
  /\ orphans' = [orphans EXCEPT !.analyses = @ \ {a}]
  /\ Hist("apiResponseUnmounted", outcome, "")
  /\ UNCHANGED <<recState, mediaVars, scriptVars, scripted, home, authVars, pageVars>>

\* The 100 ms timer fires: loadNewScript sends its request
TimerFireUnmounted(t) ==
  /\ orphans.timers[t] > 0
  /\ InFlightScripts < MaxFetches
  /\ orphans' = [orphans EXCEPT !.timers[t] = @ - 1, !.fetches = @ + 1]
  /\ HistRequest("timerUnmounted", t[1], t[2])
  /\ UNCHANGED <<recState, mediaVars, scriptVars, scripted, home, analyses,
                 authVars, pageVars>>

\* A practice-script request settles
ScriptResponseUnmounted(outcome) ==
  /\ orphans.fetches > 0
  /\ orphans' = [orphans EXCEPT !.fetches = @ - 1]
  /\ Hist("scriptResponseUnmounted", outcome, "")
  /\ UNCHANGED <<recState, mediaVars, scriptVars, scripted, home, analyses,
                 authVars, pageVars>>

----------------------------------------------------------------------------
\* Auth context, as the recorder on the plain Home sees it

SignOut ==
  /\ home = "plain"
  /\ user # "none"
  /\ user' = "none"
  /\ session' = "none"
  /\ Hist("signOut", "", "")
  /\ UNCHANGED <<recorderVars, authLoading, pageVars>>

SignIn ==
  /\ home = "plain"
  /\ user = "none"
  /\ user' = "u1"
  /\ session' = "t1"
  /\ Hist("signIn", "", "")
  /\ UNCHANGED <<recorderVars, authLoading, pageVars>>

SessionExpired ==
  /\ session # "none"
  /\ session' = "none"
  /\ Hist("sessionExpired", "", "")
  /\ UNCHANGED <<recorderVars, user, authLoading, pageVars>>

----------------------------------------------------------------------------
\* The guarded pages: Home and DashboardPage under the auth context

Routes == {"/", "/dashboard", "/login"}
Tokens == {"t1", "t2"}
SessionLists == {<<>>, <<Session(1, 72)>>, <<Session(2, 91), Session(1, 45)>>}
StatsServed == {"s1", "s2"}

\* Home: useEffect(() => { if (!loading && !user) router.push('/login') })
homeRedirect(l, u) == ~l /\ u = "none"

\* DashboardPage: useEffect(() => { if (!authLoading && !user) router.push('/login') })
dashRedirect(l, u) == ~l /\ u = "none"

\* DashboardPage: useEffect(() => { if (user) fetchDashboardData() }, [user])
dashFetchEffect(u) == u # "none"

\* DashboardPage's render guards
DashboardRender(al, dl, u) ==
  IF al \/ dl THEN "spinner" ELSE IF u = "none" THEN "null" ELSE "content"

Rendered ==
  IF route = "/" THEN HomeShows(authLoading, user)
  ELSE IF route = "/dashboard" THEN DashboardRender(authLoading, loading, user)
  ELSE "login"

\* router.push of the redirect effect of the page mounted at r, else the push pending
PushAfter(r, l, u, pending) ==
  IF r = "/" /\ home = "guarded" /\ homeRedirect(l, u) THEN "/login"
  ELSE IF r = "/dashboard" /\ dashRedirect(l, u) THEN "/login"
  ELSE pending

FirstIdleFetch(fs) == CHOOSE f \in DashIds : fs[f].pc = "idle" /\
                         \A g \in DashIds : fs[g].pc = "idle" => f <= g

\* fetchDashboardData up to its await of getSession
StartFetch(fs) ==
  [fs EXCEPT ![FirstIdleFetch(fs)] = [pc |-> "getSession", token |-> "none", orphan |-> FALSE]]

\* Unmount: the state setters of the invocations in flight no longer reach a component
Orphaned(fs) ==
  [f \in DashIds |-> IF fs[f].pc = "idle" THEN fs[f] ELSE [fs[f] EXCEPT !.orphan = TRUE]]

\* A recorder mounts: useState and useRef initial values; effect: the mount effect
\* of the scripted recorder calls loadNewScript
FreshRecorder(effect) ==
  /\ isRecording' = FALSE
  /\ audioURL' = NoURL
  /\ isAnalyzing' = FALSE
  /\ feedback' = NoFeedback
  /\ currentScript' = "none"
  /\ difficulty' = "beginner"
  /\ mediaRecorderRef' = 0
  /\ audioChunksRef' = <<>>
  /\ micPending' = 0
  /\ timers' = [t \in TimerKinds |-> 0]
  /\ loadingScript' = effect
  /\ fetches' = [d \in Difficulties |-> IF effect /\ d = "beginner" THEN 1 ELSE 0]

\* The recorder unmounts: what it left pending stays pending
UnmountedRecorder(o) ==
  [o EXCEPT !.mic = @ + micPending,
            !.timers = [t \in TimerKinds |-> @[t] + timers[t]],
            !.fetches = @ + BagSize(fetches),
            !.stops = @ \cup Stopping,
            !.analyses = @ \cup {a \in AnalysisIds : analyses[a].pc # "idle"}]

\* Home's content mounts the recorder; does the page at r under (l, u) mount one
RecorderMounts(r, l, u) == ~RecorderMounted /\ RecorderShown(r, l, u)

\* The recorder when the page at r renders under (l, u); o: the continuations
\* already left behind
RecorderAfter(r, l, u, o) ==
  /\ IF RecorderMounted /\ ~RecorderShown(r, l, u)
       THEN /\ FreshRecorder(FALSE)
            /\ orphans' = UnmountedRecorder(o)
       ELSE IF RecorderMounts(r, l, u)
       THEN /\ scripted => o.fetches < MaxFetches
            /\ FreshRecorder(scripted)
            /\ orphans' = o
       ELSE /\ UNCHANGED <<recState, micPending, scriptVars>>
            /\ orphans' = o
  /\ UNCHANGED <<recorders, tracks, analyses, scripted, home>>

\* History of a page step: the request of a mounting scripted recorder
HistPage(op, arg, r, l, u) ==
  IF scripted /\ RecorderMounts(r, l, u) THEN HistRequest(op, arg, "beginner")
  ELSE Hist(op, arg, "")

\* The effects that run when user or loading change on the mounted page, and then
\* the router.push of the caller, if any; o: the continuations left behind
AuthEffectsThen(l, u, o, push) ==
  /\ navPending' = (IF push # "" THEN push ELSE PushAfter(route, l, u, navPending))
  /\ IF route = "/dashboard" /\ u # user /\ dashFetchEffect(u)
       THEN /\ \E f \in DashIds : dashFetches[f].pc = "idle"
            /\ dashFetches' = StartFetch(dashFetches)
       ELSE UNCHANGED dashFetches
  /\ RecorderAfter(route, l, u, o)
  /\ UNCHANGED <<route, sessions, stats, loading, chartVars>>

\* The auth context publishes (l, u)
AuthEffects(l, u) ==
  /\ AuthEffectsThen(l, u, orphans, "")
  /\ UNCHANGED login

\* LoginPage unmounts with its signIn call pending
UnmountedLogin(o) == [o EXCEPT !.signIns = @ + (IF login.pending THEN 1 ELSE 0)]

\* Page r mounts: fresh component state, then its effects
Mount(r) ==
  /\ route' = r
  /\ sessions' = <<>>
  /\ stats' = "null"
  /\ loading' = TRUE
  /\ selectedSession' = <<>>
  /\ view' = DashboardView(<<>>, <<>>)
  /\ login' = IdleLogin
  /\ navPending' = PushAfter(r, authLoading, user, "")
  /\ IF r = "/dashboard" /\ dashFetchEffect(user)
       THEN /\ \E f \in DashIds : dashFetches[f].pc = "idle"
            /\ dashFetches' = StartFetch(Orphaned(dashFetches))
       ELSE dashFetches' = Orphaned(dashFetches)
  /\ RecorderAfter(r, authLoading, user, UnmountedLogin(orphans))

\* Auth context: initial session restoration ends
AuthRestored ==
  /\ authLoading
  /\ authLoading' = FALSE
  /\ user' = (IF session = "none" THEN "none" ELSE "u1")
  /\ AuthEffects(FALSE, user')
  /\ HistPage("authRestored", user', route, FALSE, user')
  /\ UNCHANGED session

\* Auth context: signed out (Home's Sign Out button, or another tab)
AuthSignedOut ==
  /\ user # "none"
  /\ user' = "none"
  /\ session' = "none"
  /\ AuthEffects(authLoading, "none")
  /\ Hist("signedOut", "", "")
  /\ UNCHANGED authLoading

\* Auth context: signed in from another tab
AuthSignedIn ==
  /\ ~authLoading
  /\ user = "none"
  /\ user' = "u1"
  /\ \E t \in Tokens : session' = t
  /\ AuthEffects(authLoading, "u1")
  /\ HistPage("signedIn", "", route, authLoading, "u1")
  /\ UNCHANGED authLoading

\* Auth provider: the access token is refreshed
TokenRefreshed ==
  /\ session # "none"
  /\ \E t \in Tokens \ {session} : session' = t
  /\ Hist("tokenRefreshed", "", "")
  /\ UNCHANGED <<recorderVars, user, authLoading, pageVars>>

MaxSignIns == 1        \* signIn calls pending at once

SignInsPending == orphans.signIns + (IF login.pending THEN 1 ELSE 0)

\* LoginPage.handleSubmit up to its await of signIn; the button is disabled={loading}
LoginSubmit ==
  /\ route = "/login"
  /\ ~login.loading
  /\ SignInsPending < MaxSignIns
  /\ login' = [loading |-> TRUE, error |-> FALSE, pending |-> TRUE]
  /\ Hist("loginSubmit", "", "")
  /\ UNCHANGED <<recorderVars, authVars, route, navPending, dashVars, chartVars>>

\* signIn resolves, for the form mounted (own) or for one since unmounted: the
\* auth context has published the user, then handleSubmit calls router.push('/');
\* with an error, setError and setLoading(false)
LoginResult(own, ok) ==
  /\ IF own THEN login.pending ELSE orphans.signIns > 0
  /\ LET o == IF own THEN orphans ELSE [orphans EXCEPT !.signIns = @ - 1] IN
       IF ok
         THEN /\ user' = "u1"
              /\ \E t \in Tokens : session' = t
              /\ AuthEffectsThen(authLoading, "u1", o, "/")
              /\ login' = (IF own THEN [login EXCEPT !.pending = FALSE] ELSE login)
              /\ HistPage("loginResult", "ok", route, authLoading, "u1")
         ELSE /\ login' = (IF own THEN [loading |-> FALSE, error |-> TRUE, pending |-> FALSE]
                                  ELSE login)
              /\ orphans' = o
              /\ Hist("loginResult", "error", "")
              /\ UNCHANGED <<recState, mediaVars, analyses, scriptVars, scripted, home,
                             user, session, route, navPending, dashVars, chartVars>>
  /\ UNCHANGED authLoading

\* A router.push completes; a push of the current URL mounts nothing
NavComplete ==
  /\ navPending # ""
  /\ IF navPending = route
       THEN /\ navPending' = ""
            /\ Hist("navComplete", navPending, "")
            /\ UNCHANGED <<recorderVars, route, login, dashVars, chartVars>>
       ELSE /\ Mount(navPending)
            /\ HistPage("navComplete", navPending, navPending, authLoading, user)
  /\ UNCHANGED authVars

\* The user opens a page (a Link, or the history); the navigation takes the place
\* of a router.push still pending
Visit(r) ==
  /\ r # route
  /\ Mount(r)
  /\ HistPage("visit", r, r, authLoading, user)
  /\ UNCHANGED authVars

\* Mutant of dashSessionGuard: the early return is missing
dashSessionGuardOff(s) == TRUE

\* if (!session) return
dashSessionGuard(s) == s # "none"

\* Mutant of finallyLoading: the flag is not cleared
finallyLoadingMissing(f) == loading

\* setLoading(false) of the finally block, ignored after unmount
finallyLoading(f) == IF dashFetches[f].orphan THEN loading ELSE FALSE

\* getSession resolves: return through finally, or GET /sessions with the token
DashSession(f) ==
  /\ dashFetches[f].pc = "getSession"
  /\ IF ~dashSessionGuard(session)
       THEN /\ dashFetches' = [dashFetches EXCEPT ![f] = IdleFetch]
            /\ loading' = finallyLoading(f)
            /\ Hist("dashGetSession", "noSession", "")
       ELSE /\ dashFetches' = [dashFetches EXCEPT ![f].pc = "sessions", ![f].token = session]
            /\ UNCHANGED loading
            /\ Hist("dashGetSession", "request", "")
  /\ UNCHANGED <<recorderVars, authVars, navVars, sessions, stats, chartVars>>

\* GET /sessions settles: setSessions under ok, then GET /stats; a throw goes to finally
DashSessionsResponse(f, outcome, data) ==
  /\ dashFetches[f].pc = "sessions"
  /\ sessions' = (IF outcome = "ok" /\ ~dashFetches[f].orphan THEN data ELSE sessions)
  /\ IF outcome = "networkError"
       THEN /\ dashFetches' = [dashFetches EXCEPT ![f] = IdleFetch]
            /\ loading' = finallyLoading(f)
            /\ Hist("dashSessions", outcome, "")
       ELSE /\ dashFetches' = [dashFetches EXCEPT ![f].pc = "stats"]
            /\ UNCHANGED loading
            /\ Hist("dashSessions", outcome, "")
  /\ view' = DashboardView(sessions', selectedSession)
  /\ UNCHANGED <<recorderVars, authVars, navVars, stats, selectedSession>>

\* GET /stats settles: setStats under ok, then finally
DashStatsResponse(f, outcome, data) ==
  /\ dashFetches[f].pc = "stats"
  /\ stats' = (IF outcome = "ok" /\ ~dashFetches[f].orphan THEN data ELSE stats)
  /\ dashFetches' = [dashFetches EXCEPT ![f] = IdleFetch]
  /\ loading' = finallyLoading(f)
  /\ Hist("dashStats", outcome, "")
  /\ UNCHANGED <<recorderVars, authVars, navVars, sessions, chartVars>>

\* SessionCard onClick: setSelectedSession(session)
SelectSession(i) ==
  /\ route = "/dashboard"
  /\ DashboardRender(authLoading, loading, user) = "content"
  /\ i \in 1..Len(sessions)
  /\ selectedSession' = <<sessions[i]>>
  /\ view' = DashboardView(sessions, selectedSession')
  /\ Hist("selectSession", "", "")
  /\ UNCHANGED <<recorderVars, authVars, navVars, dashVars>>

\* SessionDetailModal onClose: setSelectedSession(null)
CloseDetail ==
  /\ route = "/dashboard"
  /\ DashboardRender(authLoading, loading, user) = "content"
  /\ selectedSession # <<>>
  /\ selectedSession' = <<>>
  /\ view' = DashboardView(sessions, selectedSession')
  /\ Hist("closeDetail", "", "")
  /\ UNCHANGED <<recorderVars, authVars, navVars, dashVars>>

----------------------------------------------------------------------------
\* The recorder with its analysis under a changing auth state.  Of the script
\* machinery it keeps what clearRecording sets off (the request and its response);
\* the difficulty selector and the New Script button are in SpecScripts.
Next ==
  \/ StartClick
  \/ MicGranted
  \/ MicDenied
  \/ stopRecording
  \/ \E r \in RecIds, size \in {0, 1} : RecorderStopTask(r, size)
  \/ analyzeAudio
  \/ \E a \in AnalysisIds : AnalyzeSession(a)
  \/ \E a \in AnalysisIds, o \in ApiOutcomes : AnalyzeResponse(a, o)
  \/ clearRecording
  \/ \E d \in Difficulties, o \in FetchOutcomes : ScriptResponse(d, o)
  \/ SignOut
  \/ SignIn
  \/ SessionExpired

Spec == Init /\ [][Next]_vars

\* The scripted recorder, signed in, as mounted: the mount effect's request for a
\* beginner script is in flight
InitScripted ==
  /\ Init
  /\ scripted
  /\ user = "u1"

\* The difficulty button clicked beside the recordings (SpecScripts clicks every
\* button), and the size of a recording's data
ScriptedLevels == {"advanced"}
ScriptedSizes == {1}

\* Recordings, clears and difficulty switches of the scripted recorder
NextScripted ==
  \/ StartClick
  \/ MicGranted
  \/ stopRecording
  \/ \E r \in RecIds, size \in ScriptedSizes : RecorderStopTask(r, size)
  \/ clearRecording
  \/ \E level \in ScriptedLevels : DifficultyClick(level)
  \/ \E t \in TimerKinds : TimerFire(t)
  \/ \E d \in Difficulties, o \in FetchOutcomes : ScriptResponse(d, o)

SpecScripted == InitScripted /\ [][NextScripted]_vars

\* The practice scripts alone: every difficulty button, "New Script", the timers
\* and the responses in any order
NextScripts ==
  \/ NewScriptClick
  \/ \E level \in Difficulties : DifficultyClick(level)
  \/ \E t \in TimerKinds : TimerFire(t)
  \/ \E d \in Difficulties, o \in FetchOutcomes : ScriptResponse(d, o)

SpecScripts == InitScripted /\ [][NextScripts]_vars

\* The recorder when every awaited call of analyzeAudio completes: getSession
\* resolves and the POST settles, with a response or a rejection
AnalysisCompletes ==
  /\ WF_vars(\E a \in AnalysisIds : AnalyzeSession(a))
  /\ WF_vars(\E a \in AnalysisIds, o \in ApiOutcomes : AnalyzeResponse(a, o))

\* The plain recorder: no practice scripts
InitAnalysis == Init /\ ~scripted

NextAnalysis ==
  \/ StartClick
  \/ MicGranted
  \/ MicDenied
  \/ stopRecording
  \/ \E r \in RecIds, size \in {0, 1} : RecorderStopTask(r, size)
  \/ analyzeAudio
  \/ \E a \in AnalysisIds : AnalyzeSession(a)
  \/ \E a \in AnalysisIds, o \in ApiOutcomes : AnalyzeResponse(a, o)
  \/ clearRecording
  \/ SignOut
  \/ SignIn
  \/ SessionExpired

SpecAnalysis == InitAnalysis /\ [][NextAnalysis]_vars /\ AnalysisCompletes

\* The guarded pages, from page load: the auth context is restoring the session
\* and Home shows its spinner, so no recorder is mounted
InitGuarded ==
  /\ InitMedia
  /\ RecorderState(FALSE)
  /\ InitDashboard
  /\ home = "guarded"
  /\ user = "none"
  /\ session \in {"none"} \cup Tokens
  /\ authLoading = TRUE
  /\ route \in Routes
  /\ navPending = ""
  /\ login = IdleLogin

InitPages == InitGuarded /\ ~scripted

\* The list and the stats object served where their content does not matter
ListServed == <<Session(2, 91), Session(1, 45)>>

SessionsSettle == \E f \in DashIds, o \in FetchOutcomes : DashSessionsResponse(f, o, ListServed)
StatsSettle == \E f \in DashIds, o \in FetchOutcomes : DashStatsResponse(f, o, "s1")

\* Sign-in and sign-out, the login form and navigation between the three pages;
\* the changes of the session under a user who stays are left to SpecTokens
NextPages ==
  \/ AuthRestored
  \/ AuthSignedOut
  \/ AuthSignedIn
  \/ LoginSubmit
  \/ \E own, ok \in BOOLEAN : LoginResult(own, ok)
  \/ NavComplete
  \/ \E r \in Routes : Visit(r)
  \/ \E f \in DashIds : DashSession(f)
  \/ SessionsSettle
  \/ StatsSettle

SpecPages == InitPages /\ [][NextPages]_vars

\* The dashboard's requests under a changing session: every list and stats object
\* served; the login form, which sends no dashboard request, is left to SpecPages
NextTokens ==
  \/ AuthRestored
  \/ AuthSignedOut
  \/ AuthSignedIn
  \/ TokenRefreshed
  \/ SessionExpired
  \/ NavComplete
  \/ \E r \in Routes : Visit(r)
  \/ \E f \in DashIds : DashSession(f)
  \/ \E f \in DashIds, o \in FetchOutcomes, d \in SessionLists : DashSessionsResponse(f, o, d)
  \/ \E f \in DashIds, o \in FetchOutcomes, d \in StatsServed : DashStatsResponse(f, o, d)

SpecTokens == InitPages /\ [][NextTokens]_vars

\* The plain recorder inside the guarded Home, the user signed in: Home is left for
\* the login page and opened again while the recorder's calls are pending
InitHome ==
  /\ InitGuarded
  /\ ~scripted
  /\ session = "t1"
  /\ route = "/"

HomeAndLogin == {"/", "/login"}

NextHome ==
  \/ AuthRestored
  \/ \E r \in HomeAndLogin : Visit(r)
  \/ StartClick
  \/ MicGranted
  \/ MicGrantedUnmounted
  \/ MicDeniedUnmounted
  \/ stopRecording
  \/ \E r \in RecIds : RecorderStopTask(r, 1)
  \/ \E r \in RecIds : RecorderStopTaskUnmounted(r)
  \/ analyzeAudio
  \/ \E a \in AnalysisIds : AnalyzeSession(a)
  \/ \E a \in AnalysisIds : AnalyzeSessionUnmounted(a)
  \/ \E a \in AnalysisIds, o \in ApiOutcomes : AnalyzeResponse(a, o)
  \/ \E a \in AnalysisIds, o \in ApiOutcomes : AnalyzeResponseUnmounted(a, o)
  \/ clearRecording

SpecHome == InitHome /\ [][NextHome]_vars

\* The practice scripts of the scripted recorder inside the guarded Home
InitHomeScripts ==
  /\ InitGuarded
  /\ scripted
  /\ session = "t1"
  /\ route = "/"

NextHomeScripts ==
  \/ AuthRestored
  \/ \E r \in HomeAndLogin : Visit(r)
  \/ NewScriptClick
  \/ \E level \in Difficulties : DifficultyClick(level)
  \/ \E t \in TimerKinds : TimerFire(t)
  \/ \E t \in TimerKinds : TimerFireUnmounted(t)
  \/ \E d \in Difficulties, o \in FetchOutcomes : ScriptResponse(d, o)
  \/ \E o \in FetchOutcomes : ScriptResponseUnmounted(o)

SpecHomeScripts == InitHomeScripts /\ [][NextHomeScripts]_vars

\* The dashboard opened by its URL, every awaited call of fetchDashboardData
\* completing.  The login form and the token refresh, which start no fetch and
\* write no dashboard state, are left to SpecPages; one list and one stats object
\* are served.
InitLoaded == InitPages /\ route = "/dashboard"

NextDashboard ==
  \/ AuthRestored
  \/ AuthSignedOut
  \/ AuthSignedIn
  \/ SessionExpired
  \/ NavComplete
  \/ \E r \in Routes : Visit(r)
  \/ \E f \in DashIds : DashSession(f)
  \/ SessionsSettle
  \/ StatsSettle

DashboardCompletes ==
  /\ WF_vars(\E f \in DashIds : DashSession(f))
  /\ WF_vars(SessionsSettle)
  /\ WF_vars(StatsSettle)

SpecDashboard == InitLoaded /\ [][NextDashboard]_vars /\ DashboardCompletes

\* The dashboard's session views over the lists GET /sessions?limit=20 can serve:
\* the page is mounted for a signed-in user and its fetch awaits GET /sessions
ScoreSteps == {1, 20}

\* n sessions, newest first: ids count creation order, scores walk from b by step
SessionsOf(n, b, step) ==
  [i \in 1..n |-> Session(n + 1 - i, (b + (i - 1) * step) % (MaxServedScore + 1))]

ChartLists ==
  {SessionsOf(n, b, step) :
     n \in 0..SessionLimit, b \in 0..MaxServedScore, step \in ScoreSteps}

InitChart ==
  /\ InitMedia
  /\ ~scripted
  /\ RecorderState(FALSE)
  /\ home = "guarded"
  /\ user = "u1"
  /\ session = "t1"
  /\ authLoading = FALSE
  /\ route = "/dashboard"
  /\ navPending = ""
  /\ login = IdleLogin
  /\ sessions = <<>>
  /\ stats = "null"
  /\ loading = TRUE
  /\ dashFetches = [f \in DashIds |->
                      IF f = 1 THEN [pc |-> "sessions", token |-> "t1", orphan |-> FALSE]
                               ELSE IdleFetch]
  /\ selectedSession = <<>>
  /\ view = DashboardView(<<>>, <<>>)

NextChart ==
  \/ \E f \in DashIds :
       /\ dashFetches[f].pc = "sessions"
       /\ \E d \in ChartLists : DashSessionsResponse(f, "ok", d)
  \/ \E f \in DashIds, d \in StatsServed : DashStatsResponse(f, "ok", d)
  \/ \E i \in 1..SessionLimit : SelectSession(i)
  \/ CloseDetail

SpecChart == InitChart /\ [][NextChart]_vars

----------------------------------------------------------------------------
\* Properties

AllIdle == \A a \in AnalysisIds : analyses[a].pc = "idle"

\* C1: at most one capture stream has live tracks at any time, under every
\* interleaving of Start / Stop clicks, getUserMedia results and stop tasks.
C1_AtMostOneStream == Cardinality(tracks) <= 1

\* C2: a stop call made while recording queues exactly one stop task, on the
\* current recorder, and leaves the audio URL alone; that task sets the audio URL
\* to an object URL, once, and nothing else starts or ends a stop task; a stop call
\* made while not recording changes nothing.
C2_StopStep ==
  /\ (lastOp' = "stopRecording" /\ isRecording) =>
        /\ mediaRecorderRef \notin Stopping
        /\ Stopping' = Stopping \cup {mediaRecorderRef}
        /\ audioURL' = audioURL
        /\ ~isRecording'
  /\ (lastOp' = "stopRecording" /\ ~isRecording) =>
        UNCHANGED <<recState, mediaVars, analyses, scriptVars>>
  /\ lastOp' = "onstop" =>
        /\ \E r \in Stopping : Stopping' = Stopping \ {r} /\ recorders'[r] = "inactive"
        /\ audioURL' # NoURL
        /\ audioURL' = ObjectURL(audioChunksRef')
  /\ Stopping' # Stopping => lastOp' \in {"stopRecording", "onstop"}
  /\ \A r \in RecIds : recorders[r] = "inactive" => recorders'[r] = "inactive"

\* C2: every step obeys the stop discipline above: one artifact per stop call made
\* while recording, none and no change for a stop call made while not recording.
C2_OneArtifactPerStop == [][C2_StopStep]_vars

C2_Witness ==
  /\ lastOp = "onstop"
  /\ audioURL # NoURL
  /\ ~isRecording
  /\ Stopping = {}

\* C3: right after clear, the audio URL and the feedback are empty as at mount,
\* whether clear came with audio stopped, an analysis in flight or feedback shown.
C3_ClearResets ==
  lastOp = "clearRecording" => (audioURL = NoURL /\ feedback = NoFeedback)

C3_Witness ==
  /\ lastOp = "clearRecording"
  /\ isAnalyzing
  /\ \E a \in AnalysisIds : analyses[a].pc = "api"

\* C4: in the scripted recorder every clear issues a practice-script request for
\* the difficulty selected when clear is clicked.
C4_ClearRequestsSelected ==
  lastOp = "clearRecording" =>
    (lastRequest = difficulty /\ fetches[difficulty] >= 1 /\ loadingScript)

C4_Witness ==
  /\ lastOp = "clearRecording"
  /\ difficulty = "advanced"
  /\ lastRequest = "advanced"

\* C5: a switch to level L clears the displayed script, and the one request its
\* timer issues asks for L.
C5_SwitchRequestsNewLevel ==
  /\ lastOp = "setDifficulty" => (currentScript = "none" /\ difficulty = lastArg)
  /\ lastOp = "timer" => lastRequest = lastArg

\* C6: analyze without a user, or with no session at the lookup, alerts and sends
\* no request: a request to /analyze-speech is in flight only for a user and with
\* the token of a session.
C6_NoSessionNoRequest ==
  /\ \A a \in AnalysisIds :
       analyses[a].pc = "api" => (analyses[a].by # "none" /\ analyses[a].token # "none")
  /\ (lastOp = "analyzeAudio" /\ user = "none") =>
       (alert = "login" /\ AllIdle /\ ~isAnalyzing)
  /\ (lastOp = "getSession" /\ session = "none") =>
       (alert = "expired" /\ AllIdle /\ ~isAnalyzing)

C6_Witness ==
  /\ lastOp = "getSession"
  /\ session = "none"
  /\ user # "none"
  /\ alert = "expired"

\* C7: no request to /analyze-speech carries audio with zero captured chunks.
C7_RequestHasAudio ==
  \A a \in AnalysisIds : analyses[a].pc = "api" => analyses[a].blob # <<>>

\* C8: after a non-success response or a network failure the feedback is the fixed
\* error message and the analyzing flag is false.
C8_GenericError ==
  (lastOp = "apiResponse" /\ lastArg \in {"notOk", "networkError"}) =>
    (feedback = ErrorFeedback /\ ~isAnalyzing)

C8_Witness ==
  /\ lastOp = "apiResponse"
  /\ lastArg = "notOk"
  /\ feedback = ErrorFeedback

\* C9: a refused microphone request raises the alert and leaves the recorder not
\* recording, with no capture stream open.
C9_DeniedLeavesIdle ==
  lastOp = "micDenied" => (alert = "mic" /\ ~isRecording /\ tracks = {})

OnGuardedPage == route \in {"/", "/dashboard"}

RedirectIssued == (OnGuardedPage /\ ~authLoading /\ user = "none") => navPending = "/login"

NoContentWithoutUser == user = "none" => (Rendered \notin {"content"} /\ ~RecorderMounted)

\* A step that sends GET /sessions or GET /stats
DashRequestIssued ==
  \/ lastOp = "dashGetSession" /\ lastArg = "request"
  \/ lastOp = "dashSessions" /\ lastArg # "networkError"

\* C10 as stated: redirect once restoration ended without a user; without a user
\* no protected content, and no dashboard request is sent.
C10_NoRequestWithoutUser ==
  /\ RedirectIssued
  /\ NoContentWithoutUser
  /\ DashRequestIssued => user # "none"

\* C10 amended: redirect once restoration ended without a user; without a user no
\* protected content, and fetchDashboardData is never started.
C10_GuardsHold ==
  /\ [](RedirectIssued /\ NoContentWithoutUser)
  /\ [][\A f \in DashIds :
          (dashFetches[f].pc = "idle" /\ dashFetches'[f].pc = "getSession")
             => user' # "none"]_vars

C10_Witness ==
  /\ route = "/dashboard"
  /\ ~authLoading
  /\ user = "none"
  /\ navPending = "/login"
  /\ \E f \in DashIds : dashFetches[f].pc = "sessions"

\* C11: for a list of n sessions served newest first the chart has min(n, 10) bars,
\* they are the ten most recent sessions, and they stand oldest first, left to right.
C11_ChartWindow ==
  LET n == Len(sessions)
      m == IF n < ChartBars THEN n ELSE ChartBars
  IN /\ Len(view.chart) = m
     /\ \A k \in 1..m : view.chart[k].id = sessions[m + 1 - k].id
     /\ \A k \in 1..m : view.chart[k].label = k
     /\ \A k \in 1..(m - 1) : view.chart[k].id < view.chart[k + 1].id

\* A list longer than the chart has been served and charted
C11_Witness ==
  /\ lastOp = "dashSessions"
  /\ Len(sessions) > ChartBars
  /\ Len(view.chart) = ChartBars
  /\ view.chart[ChartBars].id = sessions[1].id

\* The score of the session a bar or a card with this id stands for
ScoreOf(id) == sessions[CHOOSE i \in 1..Len(sessions) : sessions[i].id = id].score

\* C12: every chart bar is score/100 of the chart height (200 px) high and that
\* height lies between 0 and 200 px, for every score a session carries.
C12_HeightWithinChart ==
  \A k \in 1..Len(view.chart) :
    /\ view.chart[k].height * maxScore = ScoreOf(view.chart[k].id) * chartHeight
    /\ view.chart[k].height >= 0
    /\ view.chart[k].height <= chartHeight

\* The band the claim gives a score between 0 and 100
Band(score) ==
  IF score \in 80..100 THEN "green" ELSE IF score \in 60..79 THEN "yellow" ELSE "red"

\* C13: a score of 80..100 is shown green, of 60..79 yellow, of 0..59 red, and the
\* session card, the chart bar and the detail view of one session show the same band.
C13_ColorBands ==
  /\ \A i \in 1..Len(view.cards) :
       ScoreOf(view.cards[i].id) \in 0..100 =>
         view.cards[i].color = Band(ScoreOf(view.cards[i].id))
  /\ \A k \in 1..Len(view.chart) :
       ScoreOf(view.chart[k].id) \in 0..100 =>
         view.chart[k].color = Band(ScoreOf(view.chart[k].id))
  /\ (selectedSession # <<>> /\ selectedSession[1].score \in 0..100) =>
       view.detail = Band(selectedSession[1].score)
  /\ \A i \in 1..Len(view.cards), k \in 1..Len(view.chart) :
       view.cards[i].id = view.chart[k].id => view.cards[i].color = view.chart[k].color
  /\ \A i \in 1..Len(view.cards) :
       (selectedSession # <<>> /\ selectedSession[1].id = view.cards[i].id) =>
         view.detail = view.cards[i].color

\* Sessions scored 80 and 79 stand side by side in the chart, green and yellow,
\* their cards show the same colors, and the detail view of the one scored 80 is open
C13_Witness ==
  /\ Len(view.chart) = ChartBars
  /\ \E k \in 1..(ChartBars - 1) :
       /\ ScoreOf(view.chart[k].id) = 80 /\ view.chart[k].color = "green"
       /\ ScoreOf(view.chart[k + 1].id) = 79 /\ view.chart[k + 1].color = "yellow"
  /\ \E i \in 1..Len(view.cards) :
       ScoreOf(view.cards[i].id) = 79 /\ view.cards[i].color = "yellow"
  /\ selectedSession # <<>>
  /\ selectedSession[1].score = 80
  /\ view.detail = "green"

\* C14: once stop has been invoked and its stop callback has run, with no other
\* start or stop under way, the recorder holds audio, is not recording, and no
\* capture stream of an earlier start has live tracks.
C14_StopReleasesDevice ==
  (lastOp = "onstop" /\ ~isRecording /\ micPending = 0 /\ Stopping = {}) =>
    (audioURL # NoURL /\ tracks = {})

\* The state of the recorder in the terms of the claims
Phase(rec, an, fb, url) ==
  IF rec THEN "recording"
  ELSE IF an THEN "analyzing"
  ELSE IF fb # NoFeedback THEN "feedback-shown"
  ELSE IF url # NoURL THEN "stopped"
  ELSE "idle"

PhaseNow == Phase(isRecording, isAnalyzing, feedback, audioURL)
PhaseNext == Phase(isRecording', isAnalyzing', feedback', audioURL')

\* C15: the recorder moves only along idle -> recording -> stopped -> analyzing ->
\* feedback-shown and by clear back to idle: recording is entered only from idle,
\* analyzing only from stopped, and clear is taken only from stopped or feedback-shown.
C15_LinearStates ==
  [][/\ (PhaseNext = "recording" /\ PhaseNow # "recording") => PhaseNow = "idle"
     /\ (PhaseNext = "analyzing" /\ PhaseNow # "analyzing") => PhaseNow = "stopped"
     /\ lastOp' = "clearRecording" => PhaseNow \in {"stopped", "feedback-shown"}]_vars

\* C16: a practice-script request that fails, by a network error or by a response
\* that is not ok, leaves the displayed script as it was before the response (the
\* prior script, or none) and sets the script-loading flag to false.
C16_FailedFetchKeepsScript ==
  [][(lastOp' = "scriptResponse" /\ lastArg' \in {"notOk", "networkError"}) =>
       (currentScript' = currentScript /\ loadingScript' = FALSE)]_vars

\* A request has just failed with a script on display
C16_Witness ==
  /\ lastOp = "scriptResponse"
  /\ lastArg \in {"notOk", "networkError"}
  /\ currentScript # "none"
  /\ ~loadingScript

\* Invocation f of fetchDashboardData sends a request in this step
SendsSessions(f) == dashFetches[f].pc = "getSession" /\ dashFetches'[f].pc = "sessions"
SendsStats(f) == dashFetches[f].pc = "sessions" /\ dashFetches'[f].pc = "stats"
ReturnsEarly(f) == dashFetches[f].pc = "getSession" /\ dashFetches'[f].pc = "idle"

\* C17 as stated: every request for sessions or stats carries the token of the auth
\* session current when it is sent; with no session neither request is sent,
\* sessions and stats keep their initial empty values and loading is cleared.
C17_CurrentToken ==
  [][\A f \in DashIds :
       /\ (SendsSessions(f) \/ SendsStats(f)) =>
            (session' # "none" /\ dashFetches'[f].token = session')
       /\ ReturnsEarly(f) =>
            /\ sessions' = <<>>
            /\ stats' = "null"
            /\ ~dashFetches[f].orphan => loading' = FALSE]_vars

\* C17, amended: both requests of one invocation carry the token of the session
\* that getSession returned to it, which is the current one when GET /sessions is
\* sent; an invocation that finds no session sends neither request, leaves sessions
\* and stats as they are, and clears loading on the page that started it.
C17_CapturedToken ==
  [][\A f \in DashIds :
       /\ SendsSessions(f) =>
            (session # "none" /\ dashFetches'[f].token = session)
       /\ SendsStats(f) =>
            (dashFetches[f].token # "none" /\ dashFetches'[f].token = dashFetches[f].token)
       /\ (session = "none" /\ dashFetches[f].pc = "getSession"
             /\ dashFetches'[f].pc # "getSession") => ReturnsEarly(f)
       /\ ReturnsEarly(f) =>
            /\ session = "none"
            /\ sessions' = sessions
            /\ stats' = stats
            /\ ~dashFetches[f].orphan => loading' = FALSE]_vars

\* GET /stats has just been sent with the captured token after a token refresh
C17_Witness ==
  /\ lastOp = "dashSessions"
  /\ session # "none"
  /\ \E f \in DashIds :
       /\ dashFetches[f].pc = "stats"
       /\ dashFetches[f].token # "none"
       /\ dashFetches[f].token # session

\* C18: feedback on display belongs to the audio held: feedback is never non-empty
\* while the captured audio is empty or while a recording is in progress, and a
\* formatted result is that of the audio held.
C18_FeedbackOfHeldAudio ==
  feedback # NoFeedback =>
    /\ audioURL # NoURL
    /\ ~isRecording
    /\ feedback.kind = "result" => feedback.blob = BlobOf(audioURL)

\* C19: the audio artifact a stop task creates consists of exactly the chunks of
\* the recording that was stopped, none dropped and none of another recording
\* mixed in through the shared buffer, and the stop task of a recording whose stop
\* was pending at a clear does not bring audio back.
C19_ArtifactOfItsRecording ==
  [][\A r \in RecIds :
       (recorders[r] = "stopping" /\ recorders'[r] = "inactive") =>
         IF r \in staleStops
           THEN audioURL' = audioURL
           ELSE audioURL' = ObjectURL(IF lastArg' = "data" THEN <<r>> ELSE <<>>)]_vars

\* C20: whenever a practice script is displayed and no script request is in flight
\* or scheduled, the displayed script was requested for the selected difficulty.
C20_ScriptOfSelectedDifficulty ==
  (currentScript # "none" /\ BagSize(fetches) = 0 /\ BagSize(timers) = 0) =>
    currentScript = difficulty

\* analyzeAudio invocations between setIsAnalyzing(true) and their finally block
InFlight == {a \in AnalysisIds : analyses[a].pc # "idle"}

\* Those of the recorder that is mounted
InFlightMounted == InFlight \ orphans.analyses

\* C21, as stated: at most one analysis request is in flight at any time.
C21_OneRequestAnyTime == Cardinality(InFlight) <= 1

\* C21, amended: of the mounted recorder at most one analysis invocation is in
\* flight, its analyzing flag is true exactly while one is, and no invocation starts
\* while the flag is true, also after a clear and a new recording made while the
\* request is pending; an invocation whose recorder was unmounted stays in flight
\* beside it.
C21_OneAnalysisInFlight ==
  /\ Cardinality(InFlightMounted) <= 1
  /\ isAnalyzing <=> InFlightMounted # {}
  /\ isAnalyzing => ~AnalyzeEnabled
  /\ (lastOp = "analyzeAudio" /\ lastArg = "started") =>
       \E a \in AnalysisIds : InFlightMounted = {a} /\ analyses[a].pc = "getSession"
  /\ orphans.analyses \subseteq InFlight

\* The request of a recorder since unmounted and the request of the mounted
\* recorder are pending together, and the Analyze button is rendered and disabled
C21_Witness ==
  /\ isAnalyzing
  /\ ~isRecording
  /\ audioURL = ObjectURL(<<2>>)
  /\ \E a \in InFlightMounted : analyses[a].pc = "api" /\ analyses[a].blob = <<2>>
  /\ \E b \in orphans.analyses : analyses[b].pc = "api" /\ analyses[b].blob = <<1>>

\* A step of an analyzeAudio invocation: its start, its getSession, its response
AnalyzeStep == lastOp' \in {"analyzeAudio", "getSession", "apiResponse"}

\* C22: when every awaited call completes, an analyzing flag that was set is reset
\* to false; the step that ends an invocation (a response that is ok, malformed or
\* not ok, a network failure, a missing session) leaves the flag false; and no
\* step of analyzeAudio changes the captured audio or the recording flag.
C22_AnalyzingEnds ==
  /\ isAnalyzing ~> ~isAnalyzing
  /\ [][/\ (lastOp' = "apiResponse" \/ (lastOp' = "getSession" /\ lastArg' = "noSession"))
            => ~isAnalyzing'
        /\ AnalyzeStep => (audioURL' = audioURL /\ isRecording' = isRecording)]_vars

\* A network failure has just ended an invocation with audio held
C22_Witness ==
  /\ lastOp = "apiResponse"
  /\ lastArg = "networkError"
  /\ ~isAnalyzing
  /\ audioURL # NoURL
  /\ feedback = ErrorFeedback

\* The dashboard is mounted for a signed-in user and shows its spinner
DashLoading == route = "/dashboard" /\ user # "none" /\ loading

\* C23: when every awaited call completes, the loading flag of a dashboard mounted
\* for a signed-in user becomes false (unless the page is left or the user signs
\* out first), whatever the outcome; a response that is not ok for sessions leaves
\* sessions and stats as they were and GET /stats is still sent, and one for stats
\* leaves stats and the sessions shown as they were and clears the loading flag.
C23_LoadingEnds ==
  /\ DashLoading ~> (~loading \/ route # "/dashboard" \/ user = "none")
  /\ [][\A f \in DashIds :
          /\ (dashFetches[f].pc = "sessions" /\ dashFetches'[f].pc # "sessions"
                /\ lastArg' = "notOk") =>
               (sessions' = sessions /\ stats' = stats /\ SendsStats(f))
          /\ (dashFetches[f].pc = "stats" /\ dashFetches'[f].pc # "stats"
                /\ lastArg' = "notOk") =>
               /\ stats' = stats
               /\ sessions' = sessions
               /\ ~dashFetches[f].orphan => ~loading'
          /\ (dashFetches[f].pc = "stats" /\ dashFetches'[f].pc # "stats"
                /\ lastArg' = "ok" /\ ~dashFetches[f].orphan) =>
               (stats' \in StatsServed /\ ~loading')
          /\ (dashFetches[f].pc # "idle" /\ dashFetches'[f].pc = "idle"
                /\ ~dashFetches[f].orphan) => ~loading']_vars

\* GET /sessions was answered not ok, GET /stats ok: the stats are shown with the
\* sessions still empty
C23_Witness ==
  /\ route = "/dashboard"
  /\ user # "none"
  /\ lastOp = "dashStats"
  /\ lastArg = "ok"
  /\ ~loading
  /\ sessions = <<>>
  /\ stats \in StatsServed

============================================================================
